---- MODULE Spec2Model ----
(***************************************************************************)
(* Model of jeu_automatique.py: the two routines devine_le_nombre_auto     *)
(* (5 rounds of midpoint search over [1,10]) and jeu_demo_simple (one      *)
(* secret, three random guesses).  Standard output is modelled as the      *)
(* sequence `out` of the print calls made so far; every print call of the  *)
(* source appends one line record.  random.randint is a nondeterministic   *)
(* choice over the closed range.  A formatted float (":.1f") is modelled   *)
(* by its value in tenths.                                                 *)
(***************************************************************************)
EXTENDS Integers, Sequences, FiniteSets

VARIABLES pc, out,
          total_tentatives, parties_gagnees, partie,
          nombre_secret, tentatives, trouve, min_val, max_val,
          demo_secret, demo_tentatives, i

vars == <<pc, out, total_tentatives, parties_gagnees, partie,
          nombre_secret, tentatives, trouve, min_val, max_val,
          demo_secret, demo_tentatives, i>>

autoVars == <<total_tentatives, parties_gagnees, partie,
              nombre_secret, tentatives, trouve, min_val, max_val>>

demoVars == <<demo_secret, demo_tentatives, i>>

(* ---------------- program constants ---------------- *)

BorneMin == 1
BorneMax == 10
NbParties == 5
MaxTentatives == 5
NbDemo == 3

(* ---------------- helpers ---------------- *)

\* one print call: a message kind and up to two numbers shown in it
Ligne(msg, x, y) == [msg |-> msg, x |-> x, y |-> y]

Print2(o, l1, l2) == Append(Append(o, l1), l2)

RandintLarge(a, b) == a .. (b + 1)

\* random.randint(a, b): any integer of the closed range
Randint(a, b) == a .. b

MilieuHaut(lo, hi) == (lo + hi + 1) \div 2

MilieuPriorite(lo, hi) == lo + (hi \div 2)

\* devine = (min_val + max_val) // 2
Milieu(lo, hi) == (lo + hi) \div 2

NouveauMinSansPlus(devine) == devine

\* min_val = devine + 1
NouveauMin(devine) == devine + 1

NouveauMaxSansMoins(devine) == devine

\* max_val = devine - 1
NouveauMax(devine) == devine - 1

ContinueOu(t, n) == (~t) \/ n < MaxTentatives

\* while not trouve and tentatives < 5
Continue(t, n) == (~t) /\ n < MaxTentatives

\* f"{num/den:.1f}" as a number of tenths (round to nearest)
Fmt1(num, den) == (20 * num + den) \div (2 * den)

\* (parties_gagnees/5)*100 shown with one decimal
TauxReussite(pg) == Fmt1(pg * 100, NbParties)

MoyenneEntiere(tt) == (tt \div NbParties) * 10

\* total_tentatives/5 shown with one decimal
Moyenne(tt) == Fmt1(tt, NbParties)

IndiceInverse(t, s) == IF t < s THEN "Plus petit" ELSE "Plus grand"

\* the hint of jeu_demo_simple for a guess that is not the secret
Indice(t, s) == IF t < s THEN "Plus grand" ELSE "Plus petit"

(* ---------------- initial state ---------------- *)

\* either routine is about to be called; nothing printed, no local bound yet
Init ==
    /\ pc \in {"auto", "demo"}
    /\ out = << >>
    /\ total_tentatives = 0
    /\ parties_gagnees = 0
    /\ partie = 0
    /\ nombre_secret = 0
    /\ tentatives = 0
    /\ trouve = FALSE
    /\ min_val = 0
    /\ max_val = 0
    /\ demo_secret = 0
    /\ demo_tentatives = << >>
    /\ i = 0

(* ---------------- devine_le_nombre_auto ---------------- *)

\* lines 5-9: banner, accumulators set to 0, first value of the for loop
Debut ==
    /\ pc = "auto"
    /\ out' = Print2(out, Ligne("Titre", 0, 0), Ligne("Separateur", 0, 0))
    /\ total_tentatives' = 0
    /\ parties_gagnees' = 0
    /\ partie' = 1
    /\ pc' = "for"
    /\ UNCHANGED <<nombre_secret, tentatives, trouve, min_val, max_val>>
    /\ UNCHANGED demoVars

\* lines 11-20: one iteration of the for loop starts
NouvellePartie ==
    /\ pc = "for"
    /\ partie <= NbParties
    /\ \E s \in Randint(BorneMin, BorneMax) :
          /\ nombre_secret' = s
          /\ out' = Print2(out, Ligne("Partie", partie, 0),
                                Ligne("Secret", s, 0))
    /\ tentatives' = 0
    /\ trouve' = FALSE
    /\ min_val' = BorneMin
    /\ max_val' = BorneMax
    /\ pc' = "while"
    /\ UNCHANGED <<total_tentatives, parties_gagnees, partie>>
    /\ UNCHANGED demoVars

TentativeCompteEchecs ==
    /\ pc = "while"
    /\ Continue(trouve, tentatives)
    /\ LET devine == Milieu(min_val, max_val)
       IN  IF devine < nombre_secret
           THEN /\ tentatives' = tentatives + 1
                /\ out' = Print2(out, Ligne("Tentative", tentatives + 1, devine),
                                      Ligne("Trop petit", 0, 0))
                /\ min_val' = NouveauMin(devine)
                /\ UNCHANGED <<max_val, trouve, parties_gagnees>>
           ELSE IF devine > nombre_secret
           THEN /\ tentatives' = tentatives + 1
                /\ out' = Print2(out, Ligne("Tentative", tentatives + 1, devine),
                                      Ligne("Trop grand", 0, 0))
                /\ max_val' = NouveauMax(devine)
                /\ UNCHANGED <<min_val, trouve, parties_gagnees>>
           ELSE /\ tentatives' = tentatives
                /\ out' = Print2(out, Ligne("Tentative", tentatives, devine),
                                      Ligne("Trouve", 0, 0))
                /\ trouve' = TRUE
                /\ parties_gagnees' = parties_gagnees + 1
                /\ UNCHANGED <<min_val, max_val>>
    /\ UNCHANGED <<pc, total_tentatives, partie, nombre_secret>>
    /\ UNCHANGED demoVars

\* lines 22-38: one iteration of the while loop
Tentative ==
    /\ pc = "while"
    /\ Continue(trouve, tentatives)
    /\ LET devine == Milieu(min_val, max_val)
       IN  /\ tentatives' = tentatives + 1
           /\ IF devine < nombre_secret
              THEN /\ out' = Print2(out, Ligne("Tentative", tentatives + 1, devine),
                                         Ligne("Trop petit", 0, 0))
                   /\ min_val' = NouveauMin(devine)
                   /\ UNCHANGED <<max_val, trouve, parties_gagnees>>
              ELSE IF devine > nombre_secret
              THEN /\ out' = Print2(out, Ligne("Tentative", tentatives + 1, devine),
                                         Ligne("Trop grand", 0, 0))
                   /\ max_val' = NouveauMax(devine)
                   /\ UNCHANGED <<min_val, trouve, parties_gagnees>>
              ELSE /\ out' = Print2(out, Ligne("Tentative", tentatives + 1, devine),
                                         Ligne("Trouve", 0, 0))
                   /\ trouve' = TRUE
                   /\ parties_gagnees' = parties_gagnees + 1
                   /\ UNCHANGED <<min_val, max_val>>
    /\ UNCHANGED <<pc, total_tentatives, partie, nombre_secret>>
    /\ UNCHANGED demoVars

\* lines 40-45: the while loop has ended; round summary, accumulation,
\* next value of the for loop
FinPartie ==
    /\ pc = "while"
    /\ ~Continue(trouve, tentatives)
    /\ out' = Append(out, IF ~trouve
                          THEN Ligne("Echec", tentatives, nombre_secret)
                          ELSE Ligne("Succes", tentatives, 0))
    /\ total_tentatives' = total_tentatives + tentatives
    /\ partie' = partie + 1
    /\ pc' = "for"
    /\ UNCHANGED <<parties_gagnees, nombre_secret, tentatives, trouve,
                   min_val, max_val>>
    /\ UNCHANGED demoVars

\* lines 47-54: the for loop is exhausted; final report
Statistiques ==
    /\ pc = "for"
    /\ partie > NbParties
    /\ out' = out \o << Ligne("Separateur", 0, 0),
                        Ligne("Statistiques", 0, 0),
                        Ligne("Parties jouees", 5, 0),
                        Ligne("Parties gagnees", parties_gagnees, 0),
                        Ligne("Taux", TauxReussite(parties_gagnees), 0),
                        Ligne("Moyenne", Moyenne(total_tentatives), 0),
                        Ligne("Terminee", 0, 0) >>
    /\ pc' = "done"
    /\ UNCHANGED autoVars
    /\ UNCHANGED demoVars

(* ---------------- jeu_demo_simple ---------------- *)

\* lines 58-64: banner, the secret and the three guesses are drawn
DemoDebut ==
    /\ pc = "demo"
    /\ \E s \in Randint(BorneMin, BorneMax) :
          /\ demo_secret' = s
          /\ out' = Print2(out, Ligne("Demo", 0, 0), Ligne("Secret", s, 0))
    /\ demo_tentatives' \in [1 .. NbDemo -> Randint(BorneMin, BorneMax)]
    /\ i' = 1
    /\ pc' = "demo_for"
    /\ UNCHANGED autoVars

DemoTentativeSansBreak ==
    /\ pc = "demo_for"
    /\ i <= NbDemo
    /\ LET tentative == demo_tentatives[i]
       IN  IF tentative = demo_secret
           THEN /\ out' = Print2(out, Ligne("Tentative", i, tentative),
                                      Ligne("Gagne", 0, 0))
                /\ pc' = pc
                /\ i' = i + 1
           ELSE /\ out' = Print2(out, Ligne("Tentative", i, tentative),
                                      Ligne(Indice(tentative, demo_secret), 0, 0))
                /\ pc' = pc
                /\ i' = i + 1
    /\ UNCHANGED <<demo_secret, demo_tentatives>>
    /\ UNCHANGED autoVars

\* lines 66-74: one iteration of the for loop over the guesses
DemoTentative ==
    /\ pc = "demo_for"
    /\ i <= NbDemo
    /\ LET tentative == demo_tentatives[i]
       IN  IF tentative = demo_secret
           THEN /\ out' = Print2(out, Ligne("Tentative", i, tentative),
                                      Ligne("Gagne", 0, 0))
                /\ pc' = "demo_done"
                /\ i' = i
           ELSE /\ out' = Print2(out, Ligne("Tentative", i, tentative),
                                      Ligne(Indice(tentative, demo_secret), 0, 0))
                /\ pc' = pc
                /\ i' = i + 1
    /\ UNCHANGED <<demo_secret, demo_tentatives>>
    /\ UNCHANGED autoVars

\* lines 75-76: the else clause of the for loop, run when the loop was
\* exhausted without break
DemoElse ==
    /\ pc = "demo_for"
    /\ i > NbDemo
    /\ out' = Append(out, Ligne("Le nombre etait", demo_secret, 0))
    /\ pc' = "demo_done"
    /\ UNCHANGED <<demo_secret, demo_tentatives, i>>
    /\ UNCHANGED autoVars

(* ---------------- specification ---------------- *)

Next ==
    \/ Debut
    \/ NouvellePartie
    \/ Tentative
    \/ FinPartie
    \/ Statistiques
    \/ DemoDebut
    \/ DemoTentative
    \/ DemoElse

Spec == Init /\ [][Next]_vars

(* ---------------- reading the output ---------------- *)

\* number of printed lines of a given kind
Compte(msg) == Cardinality({k \in 1 .. Len(out) : out[k].msg = msg})

\* position of the header of the round in progress (0 before the first one)
DebutPartie ==
    IF \E k \in 1 .. Len(out) : out[k].msg = "Partie"
    THEN CHOOSE k \in 1 .. Len(out) :
            /\ out[k].msg = "Partie"
            /\ \A j \in (k + 1) .. Len(out) : out[j].msg # "Partie"
    ELSE 0

\* the "Tentative" lines printed so far, in order
LignesTentative == SelectSeq(out, LAMBDA l : l.msg = "Tentative")

\* the guesses printed so far in the round in progress, in order
Devinettes ==
    LET s == SelectSeq(SubSeq(out, DebutPartie + 1, Len(out)),
                       LAMBDA l : l.msg = "Tentative")
    IN  [k \in 1 .. Len(s) |-> s[k].y]

\* the round summaries ("Succes" or "Echec") printed so far, in order
Bilans == SelectSeq(out, LAMBDA l : l.msg \in {"Succes", "Echec"})

RECURSIVE SommeX(_)
SommeX(s) == IF s = << >> THEN 0 ELSE Head(s).x + SommeX(Tail(s))

\* the while loop of the round in progress has just ended
FinBoucle == pc = "while" /\ ~Continue(trouve, tentatives)

EnDemo == pc \in {"demo_for", "demo_done"}

(* ---------------- claims ---------------- *)

\* C1: every round's guessing loop ends with trouve = TRUE; the failure
\* line ("Echec") is never printed.
C1_ToujoursTrouve ==
    /\ FinBoucle => trouve
    /\ Compte("Echec") = 0

C1_Witness ==
    /\ FinBoucle
    /\ trouve
    /\ partie = NbParties
    /\ nombre_secret = BorneMax

\* C2: at the end of every round's guessing loop 1 <= tentatives <= 5, and
\* so is every attempt count printed in a round summary.
C2_BornesTentatives ==
    /\ FinBoucle => (1 <= tentatives /\ tentatives <= 5)
    /\ \A k \in 1 .. Len(Bilans) : 1 <= Bilans[k].x /\ Bilans[k].x <= 5

C2_Witness ==
    /\ FinBoucle
    /\ tentatives = 4
    /\ \E k \in 1 .. Len(Bilans) : Bilans[k].x = 1

\* C3 as stated: with secret 1 the guesses are 5, 3, 2, 1 and the round is
\* resolved in exactly 4 attempts.
C3_Original ==
    (FinBoucle /\ nombre_secret = 1) =>
        (Devinettes = <<5, 3, 2, 1>> /\ tentatives = 4 /\ trouve)

\* C3 amended: with secret 1 the guesses are 5, 2, 1 in that order and the
\* round is resolved (found) in exactly 3 attempts.
C3_Secret1 ==
    (FinBoucle /\ nombre_secret = 1) =>
        (Devinettes = <<5, 2, 1>> /\ tentatives = 3 /\ trouve)

C3_Witness ==
    /\ FinBoucle
    /\ nombre_secret = 1
    /\ Len(Devinettes) > 0
    /\ Devinettes[Len(Devinettes)] = 1

\* C4: with secret 7 the guesses are 5 (too small, interval [6,10]), 8 (too
\* big, interval [6,7]), 6 (too small, interval [7,7]), 7 (found), and the
\* round is found in exactly 4 attempts.
C4_Secret7 ==
    (pc = "while" /\ nombre_secret = 7) =>
        /\ tentatives <= 4
        /\ Len(Devinettes) = tentatives
        /\ tentatives = 0 => (min_val = 1 /\ max_val = 10 /\ ~trouve)
        /\ tentatives = 1 =>
              /\ Devinettes = <<5>>
              /\ out[Len(out)].msg = "Trop petit"
              /\ min_val = 6 /\ max_val = 10 /\ ~trouve
        /\ tentatives = 2 =>
              /\ Devinettes = <<5, 8>>
              /\ out[Len(out)].msg = "Trop grand"
              /\ min_val = 6 /\ max_val = 7 /\ ~trouve
        /\ tentatives = 3 =>
              /\ Devinettes = <<5, 8, 6>>
              /\ out[Len(out)].msg = "Trop petit"
              /\ min_val = 7 /\ max_val = 7 /\ ~trouve
        /\ tentatives = 4 =>
              /\ Devinettes = <<5, 8, 6, 7>>
              /\ out[Len(out)].msg = "Trouve"
              /\ trouve
        /\ FinBoucle => (trouve /\ tentatives = 4)

C4_Witness ==
    /\ FinBoucle
    /\ nombre_secret = 7
    /\ tentatives = 4
    /\ Devinettes = <<5, 8, 6, 7>>

\* C5: in jeu_demo_simple the reveal line is never printed when one of the
\* 3 guesses equals the secret, and is printed exactly once (with the
\* secret) when none does.
C5_Revelation ==
    EnDemo =>
        /\ pc = "demo_for" => Compte("Le nombre etait") = 0
        /\ pc = "demo_done" =>
              IF \E k \in 1 .. NbDemo : demo_tentatives[k] = demo_secret
              THEN Compte("Le nombre etait") = 0
              ELSE /\ Compte("Le nombre etait") = 1
                   /\ out[Len(out)] = Ligne("Le nombre etait", demo_secret, 0)

C5_Witness ==
    /\ pc = "demo_done"
    /\ \A k \in 1 .. NbDemo : demo_tentatives[k] # demo_secret
    /\ Compte("Le nombre etait") = 1

\* C6: the number of won rounds is the number of rounds that ended found
\* (one per "Succes" summary), and the win rate of the final report is
\* (rounds_won / 5) * 100, i.e. rounds_won * 20 percent (x is in tenths).
C6_TauxReussite ==
    /\ pc \in {"for", "done"} => parties_gagnees = Compte("Succes")
    /\ pc = "while" =>
          parties_gagnees = Compte("Succes") + (IF trouve THEN 1 ELSE 0)
    /\ pc = "done" =>
          /\ Compte("Taux") = 1
          /\ \A k \in 1 .. Len(out) :
                out[k].msg = "Taux" => out[k].x = Compte("Succes") * 20 * 10

C6_Witness ==
    /\ pc = "done"
    /\ Compte("Succes") = NbParties
    /\ \E k \in 1 .. Len(out) : out[k].msg = "Taux" /\ out[k].x = 1000

\* C7: total_tentatives is the sum of the final attempt counts of the
\* rounds played, each added once after its loop, and the mean of the final
\* report is total_tentatives / 5 (x is in tenths).
C7_Moyenne ==
    /\ pc \in {"for", "done"} =>
          /\ Len(Bilans) = partie - 1
          /\ total_tentatives = SommeX(Bilans)
    /\ pc = "while" =>
          /\ Len(Bilans) = partie - 1
          /\ total_tentatives = SommeX(Bilans)
    /\ pc = "done" =>
          /\ Len(Bilans) = NbParties
          /\ Compte("Moyenne") = 1
          /\ \A k \in 1 .. Len(out) :
                out[k].msg = "Moyenne" => 5 * out[k].x = 10 * SommeX(Bilans)

C7_Witness ==
    /\ pc = "done"
    /\ total_tentatives = 13
    /\ \E k \in 1 .. Len(out) : out[k].msg = "Moyenne" /\ out[k].x = 26

\* C8: the demo guesses are printed in their sampled order, nothing is
\* printed or compared after the first guess equal to the secret, the win
\* line is printed at most once, and every guess before it gets exactly one
\* hint: "Plus grand" when guess < secret, "Plus petit" when guess > secret.
C8_OrdreEtArret ==
    EnDemo =>
        LET n == Len(LignesTentative)
        IN  /\ n <= NbDemo
            /\ \A k \in 1 .. n :
                  LignesTentative[k] = Ligne("Tentative", k, demo_tentatives[k])
            /\ \A k \in 1 .. (n - 1) : demo_tentatives[k] # demo_secret
            /\ Compte("Gagne") <= 1
            /\ Compte("Gagne") = 1 =>
                  (pc = "demo_done" /\ out[Len(out)].msg = "Gagne")
            /\ Compte("Plus grand") + Compte("Plus petit") + Compte("Gagne") = n
            /\ \A p \in 1 .. Len(out) :
                  out[p].msg = "Tentative" =>
                     /\ p < Len(out)
                     /\ out[p + 1].msg =
                           IF out[p].y = demo_secret THEN "Gagne"
                           ELSE IF out[p].y < demo_secret THEN "Plus grand"
                           ELSE "Plus petit"
            /\ pc = "demo_for" => n = i - 1
            /\ pc = "demo_done" =>
                  \/ n = NbDemo
                  \/ demo_tentatives[n] = demo_secret

C8_Witness ==
    /\ pc = "demo_done"
    /\ demo_tentatives[1] < demo_secret
    /\ demo_tentatives[2] = demo_secret
    /\ demo_tentatives[3] = demo_secret
    /\ Len(LignesTentative) = 2
    /\ Compte("Plus grand") = 1

\* C9: during a round's guessing loop the interval contains the secret,
\* 1 <= min_val <= nombre_secret <= max_val <= 10, so min_val > max_val is
\* never reached and the next guess lies in [min_val, max_val].
C9_IntervalleContientSecret ==
    pc = "while" =>
        /\ 1 <= min_val
        /\ min_val <= nombre_secret
        /\ nombre_secret <= max_val
        /\ max_val <= 10
        /\ Continue(trouve, tentatives) =>
              (min_val <= Milieu(min_val, max_val)
               /\ Milieu(min_val, max_val) <= max_val)
        /\ \A k \in 1 .. Len(Devinettes) :
              1 <= Devinettes[k] /\ Devinettes[k] <= 10

C9_Witness ==
    /\ pc = "while"
    /\ ~trouve
    /\ min_val = max_val
    /\ min_val = BorneMax
    /\ tentatives = 3

\* C10: every round is found in at most 4 attempts, so the cap
\* tentatives < 5 never ends a round by itself, and total_tentatives after
\* the 5 rounds is between 5 and 20.
C10_AuPlusQuatre ==
    /\ pc = "while" => tentatives <= 4
    /\ FinBoucle => (trouve /\ tentatives < MaxTentatives)
    /\ \A k \in 1 .. Len(Bilans) :
          Bilans[k].msg = "Succes" /\ Bilans[k].x <= 4
    /\ pc = "done" => (5 <= total_tentatives /\ total_tentatives <= 20)

C10_Witness ==
    /\ pc = "done"
    /\ total_tentatives = 20

====
